---- MODULE Spec2Model ----
(***************************************************************************)
(* Keyword matching and trend/prediction engine of the monitor:            *)
(* KeywordAnalyzer (keyword_analyzer/keyword_analyzer.py) and the trend    *)
(* analysis of ReportGenerator (reporting/report_generator.py), with       *)
(* ConfigManager (config/config_manager.py), Scheduler                     *)
(* (utils/scheduler.py) and the CSV storage of EUParliamentDataFetcher     *)
(* (data_fetcher/eu_parliament_fetcher.py).                                *)
(*                                                                         *)
(* A Python str is a sequence of one-character strings.  A Python dict is  *)
(* a sequence of <<key, value>> pairs in insertion order.  A Python set of *)
(* str is a duplicate-free sequence: its order is the set's iteration      *)
(* order, which the interpreter fixes but the program does not control.    *)
(* A float is an exact fraction [num, den] (rounding is not modelled).     *)
(* A datetime is its day number: every date the code derives differs from  *)
(* the given one by whole days, so the time of day never decides a         *)
(* comparison.                                                             *)
(***************************************************************************)
EXTENDS Integers, Sequences, FiniteSets, TLC

VARIABLES
    config,        \* KeywordAnalyzer.config
    keywords,      \* KeywordAnalyzer.keywords, in iteration order
    keyword_file,  \* data/fintech_keywords.txt: [exists, lines]
    rg_config,     \* ReportGenerator.config
    data_dir,      \* data/*<date>*.csv: day -> rows read by csv.DictReader
    documents,     \* the documents fetched, handed to the analyzer
    fetcher_config,  \* EUParliamentDataFetcher.config
    ret,           \* the last call: its name, arguments and return value
    default_config,  \* ConfigManager.default_config
    cm_config,       \* ConfigManager.config: which dicts it is made of
    config_file,     \* config/config.json: [kind, content]
    running,       \* Scheduler.running
    thread,        \* Scheduler.thread: the number of the last thread made, 0 for None
    threads,       \* where each thread made by start() is in _run_scheduler
    caller,        \* where the thread that calls start() and stop() is
    jobs,          \* the jobs registered with the schedule module
    scheduler_config  \* Scheduler.config: the scheduler section of the configuration

manager_vars == <<default_config, cm_config, config_file>>

scheduler_vars == <<running, thread, threads, caller, jobs, scheduler_config>>

vars == <<config, keywords, keyword_file, rg_config, data_dir, documents, fetcher_config, ret,
          manager_vars, scheduler_vars>>

(***************************************************************************)
(* Bounds of the model.                                                    *)
(***************************************************************************)
MaxResults == 1      \* max_results ranges over 0..MaxResults
MaxDocs == 2         \* length of the document lists handed to the analyzer
MaxWindowDays == 5   \* trend_analysis_days ranges over 0..MaxWindowDays
MaxEndDate == 2      \* end_date ranges over 0..MaxEndDate
MaxThreads == 3      \* threads made by Scheduler.start()
MaxJobs == 2         \* jobs registered with the schedule module

(***************************************************************************)
(* Strings.                                                                *)
(***************************************************************************)
S_fintech == <<"f", "i", "n", "t", "e", "c", "h">>
S_FinTech == <<"F", "i", "n", "T", "e", "c", "h">>
S_tech == <<"t", "e", "c", "h">>
S_aa == <<"a", "a">>
S_pad_a == <<" ", "a", " ">>
S_title == <<"t", "i", "t", "l", "e">>
S_content == <<"c", "o", "n", "t", "e", "n", "t">>
S_description == <<"d", "e", "s", "c", "r", "i", "p", "t", "i", "o", "n">>
S_text == <<"t", "e", "x", "t">>
S_summary == <<"s", "u", "m", "m", "a", "r", "y">>
S_id == <<"i", "d">>
S_7 == <<"7">>
S_fintechnology == <<"f", "i", "n", "t", "e", "c", "h", "n", "o", "l", "o", "g", "y">>
S_aaaa == <<"a", "a", "a", "a">>
S_Fintech_growth == <<"F", "i", "n", "t", "e", "c", "h", " ", "g", "r", "o", "w", "t", "h">>
S_fintech_is_booming == <<"f", "i", "n", "t", "e", "c", "h", " ", "i", "s", " ", "b", "o", "o", "m", "i", "n", "g">>
S_Other == <<"O", "t", "h", "e", "r">>
S_nothing_relevant == <<"n", "o", "t", "h", "i", "n", "g", " ", "r", "e", "l", "e", "v", "a", "n", "t">>
S_high_tech == <<"h", "i", "g", "h", " ", "t", "e", "c", "h">>
S_tech_tech == <<"t", "e", "c", "h", " ", "t", "e", "c", "h">>
S_aaa == <<"a", "a", "a">>
S_cpp == <<"c", "+", "+">>
S_tech_sp == <<"t", "e", "c", "h", " ">>
S_cpp_fintech == <<"c", "+", "+", " ", "f", "i", "n", "t", "e", "c", "h">>
S_fintech_us == <<"f", "i", "n", "t", "e", "c", "h", "_">>
S_a_fintech_FINTECH == <<"a", " ", "f", "i", "n", "t", "e", "c", "h", ",", " ", "F", "I", "N", "T", "E", "C", "H">>

\* The characters of the model in code-point order.
CharOrder == <<"\t", "\n", " ", "\"", "'", "+", ",", ".", "0", "1", "2", "3", "4", "5", "6", "7", "8", "9", ":",
               "A", "B", "C", "D", "E", "F", "G", "H", "I", "J", "K", "L", "M",
               "N", "O", "P", "Q", "R", "S", "T", "U", "V", "W", "X", "Y", "Z", "_",
               "a", "b", "c", "d", "e", "f", "g", "h", "i", "j", "k", "l", "m",
               "n", "o", "p", "q", "r", "s", "t", "u", "v", "w", "x", "y", "z", "{", "}">>

Chars == {CharOrder[i] : i \in 1..Len(CharOrder)}

\* ord(): the place of a character in the code-point order
OrdOf == [c \in Chars |-> CHOOSE i \in 1..Len(CharOrder) : CharOrder[i] = c]

ord(c) == OrdOf[c]

UpperChars == {c \in Chars : ord(c) >= ord("A") /\ ord(c) <= ord("Z")}
LowerChars == {c \in Chars : ord(c) >= ord("a") /\ ord(c) <= ord("z")}
DigitChars == {c \in Chars : ord(c) >= ord("0") /\ ord(c) <= ord("9")}

\* str.lower() on one character
LowerOf ==
    [c \in Chars |-> IF c \in UpperChars THEN CharOrder[ord(c) - ord("A") + ord("a")] ELSE c]

char_lower(c) == LowerOf[c]

\* str.lower()
str_lower(s) == [i \in 1..Len(s) |-> char_lower(s[i])]

\* str.isspace() on one character
is_space(c) == c \in {" ", "\t", "\n"}

RECURSIVE str_lstrip(_)
str_lstrip(s) == IF s # <<>> /\ is_space(Head(s)) THEN str_lstrip(Tail(s)) ELSE s

RECURSIVE str_rstrip(_)
str_rstrip(s) ==
    IF s # <<>> /\ is_space(s[Len(s)]) THEN str_rstrip(SubSeq(s, 1, Len(s) - 1)) ELSE s

\* str.strip()
str_strip(s) == str_rstrip(str_lstrip(s))

\* s < t for two str (lexicographic by code point)
RECURSIVE str_less(_, _)
str_less(s, t) ==
    IF t = <<>> THEN FALSE
    ELSE IF s = <<>> THEN TRUE
    ELSE IF Head(s) # Head(t) THEN ord(Head(s)) < ord(Head(t))
    ELSE str_less(Tail(s), Tail(t))

Range(f) == {f[i] : i \in DOMAIN f}

RECURSIVE insert_sorted(_, _)
insert_sorted(sorted, s) ==
    IF sorted = <<>> THEN <<s>>
    ELSE IF str_less(s, Head(sorted)) THEN <<s>> \o sorted
    ELSE <<Head(sorted)>> \o insert_sorted(Tail(sorted), s)

\* sorted(<a set of str given in any order>)
RECURSIVE sorted_strs(_)
sorted_strs(seq) ==
    IF seq = <<>> THEN <<>> ELSE insert_sorted(sorted_strs(Tail(seq)), Head(seq))

(***************************************************************************)
(* KeywordAnalyzer: the term set.                                          *)
(***************************************************************************)
KeywordSet == Range(keywords)

\* the keyword a line or an argument becomes under the case policy
case_fold(cfg, keyword) == IF cfg.case_sensitive THEN keyword ELSE str_lower(keyword)

\* load_keywords, lines 63-69: the keywords the file's lines add, from the
\* i-th line on, in the order of the lines
RECURSIVE loaded_keywords_from(_, _, _)
loaded_keywords_from(cfg, lines, i) ==
    IF i > Len(lines) THEN <<>>
    ELSE LET keyword == str_strip(lines[i])
         IN (IF Len(keyword) >= cfg.min_keyword_length
             THEN <<case_fold(cfg, keyword)>> ELSE <<>>)
            \o loaded_keywords_from(cfg, lines, i + 1)

\* load_keywords, lines 61-74: a file that cannot be read adds nothing
loaded_keywords(cfg, file) ==
    IF ~file.exists THEN <<>> ELSE loaded_keywords_from(cfg, file.lines, 1)

\* add_keyword, lines 83-87: the keywords that are added, none when rejected
added_keywords(cfg, keyword) ==
    IF Len(keyword) >= cfg.min_keyword_length THEN <<case_fold(cfg, keyword)>> ELSE <<>>

\* the orders of a set after set.add(s): unchanged when s is in it, otherwise
\* s takes any place among the others, which keep theirs
orders_after_add(order, s) ==
    IF s \in Range(order) THEN {order}
    ELSE {SubSeq(order, 1, i) \o <<s>> \o SubSeq(order, i + 1, Len(order)) :
            i \in 0..Len(order)}

\* the orders of a set after set.add of each of `more` in turn
RECURSIVE orders_after_adds(_, _)
orders_after_adds(order, more) ==
    IF more = <<>> THEN {order}
    ELSE UNION {orders_after_adds(o, Tail(more)) : o \in orders_after_add(order, Head(more))}

\* the order of a set after set.remove: the others keep their places
RECURSIVE order_after_remove(_, _)
order_after_remove(order, s) ==
    IF order = <<>> THEN <<>>
    ELSE IF Head(order) = s THEN Tail(order)
    ELSE <<Head(order)>> \o order_after_remove(Tail(order), s)

\* remove_keyword without the membership test: set.remove raises KeyError
remove_keyword_unchecked(cfg, order, keyword) ==
    LET k == case_fold(cfg, keyword) IN
    IF k \in Range(order)
    THEN [order |-> order_after_remove(order, k), found |-> TRUE, raised |-> FALSE]
    ELSE [order |-> order, found |-> FALSE, raised |-> TRUE]

\* remove_keyword, lines 97-104: the set afterwards, whether the keyword was
\* found, whether an exception was raised
remove_keyword_result(cfg, order, keyword) ==
    LET k == case_fold(cfg, keyword) IN
    IF k \in Range(order)
    THEN [order |-> order_after_remove(order, k), found |-> TRUE, raised |-> FALSE]
    ELSE [order |-> order, found |-> FALSE, raised |-> FALSE]

(***************************************************************************)
(* KeywordAnalyzer: the matcher.                                           *)
(***************************************************************************)
\* \w of the re module, on one character
WordChars == UpperChars \cup LowerChars \cup DigitChars \cup {"_"}

is_word_char(c) == c \in WordChars

\* \b of the re module before the character at position p (1..Len(text)+1)
word_boundary(text, p) ==
    LET before == p > 1 /\ is_word_char(text[p - 1])
        after == p <= Len(text) /\ is_word_char(text[p])
    IN before # after

\* the literal re.escape(keyword) matches at position p
literal_at(keyword, text, p) ==
    /\ p + Len(keyword) - 1 <= Len(text)
    /\ \A i \in 1..Len(keyword) : text[p + i - 1] = keyword[i]

\* the pattern of analyze_text, lines 146-152, matches at position p
pattern_at(whole_word, keyword, text, p) ==
    /\ literal_at(keyword, text, p)
    /\ whole_word => word_boundary(text, p) /\ word_boundary(text, p + Len(keyword))

\* a scan that goes on from the position after the start of a match
RECURSIVE findall_count_overlapping(_, _, _, _)
findall_count_overlapping(whole_word, keyword, text, p) ==
    IF p > Len(text) + 1 THEN 0
    ELSE (IF pattern_at(whole_word, keyword, text, p) THEN 1 ELSE 0)
         + findall_count_overlapping(whole_word, keyword, text, p + 1)

\* len(re.findall(pattern, text)): the scan from position p on; a match is
\* followed by a scan from its end (from the next position when it is empty)
RECURSIVE findall_count(_, _, _, _)
findall_count(whole_word, keyword, text, p) ==
    IF p > Len(text) + 1 THEN 0
    ELSE IF pattern_at(whole_word, keyword, text, p)
         THEN 1 + findall_count(whole_word, keyword, text,
                                p + (IF Len(keyword) = 0 THEN 1 ELSE Len(keyword)))
         ELSE findall_count(whole_word, keyword, text, p + 1)

\* analyze_text without the test of line 154: every keyword gets an entry
RECURSIVE analyze_text_loop_unfiltered(_, _, _, _)
analyze_text_loop_unfiltered(cfg, order, text, i) ==
    IF i > Len(order) THEN <<>>
    ELSE <<(<<order[i], findall_count(cfg.match_whole_word, order[i], text, 1)>>)>>
         \o analyze_text_loop_unfiltered(cfg, order, text, i + 1)

\* analyze_text, lines 145-155: the loop over self.keywords from the i-th on
RECURSIVE analyze_text_loop(_, _, _, _)
analyze_text_loop(cfg, order, text, i) ==
    IF i > Len(order) THEN <<>>
    ELSE LET n == findall_count(cfg.match_whole_word, order[i], text, 1)
             rest == analyze_text_loop(cfg, order, text, i + 1)
         IN IF n > 0 THEN <<(<<order[i], n>>)>> \o rest ELSE rest

\* analyze_text without lines 140-141: the text is scanned as it was given
analyze_text_of_case_kept(cfg, order, text) ==
    IF text = <<>> THEN <<>> ELSE analyze_text_loop(cfg, order, text, 1)

\* analyze_text, lines 137-157
analyze_text_of(cfg, order, text) ==
    IF text = <<>> THEN <<>>
    ELSE analyze_text_loop(cfg, order,
                           IF cfg.case_sensitive THEN text ELSE str_lower(text), 1)

(***************************************************************************)
(* Documents: a dict of str keys; a value is [t |-> "str", v |-> <chars>]  *)
(* or, for a value that is no str, [t |-> "int", v |-> <its digits>].      *)
(***************************************************************************)
dict_has(d, key) == \E i \in 1..Len(d) : d[i][1] = key
dict_get(d, key) == d[CHOOSE i \in 1..Len(d) : d[i][1] = key][2]
dict_keys(d) == {d[i][1] : i \in 1..Len(d)}

\* repr() of a key or a value (the strings of the model hold no quote or escape)
py_repr(x) == IF x.t = "str" THEN <<"'">> \o x.v \o <<"'">> ELSE x.v

\* str(document), from the i-th item on
RECURSIVE py_str_items(_, _)
py_str_items(d, i) ==
    IF i > Len(d) THEN <<>>
    ELSE (IF i > 1 THEN <<",", " ">> ELSE <<>>)
         \o py_repr([t |-> "str", v |-> d[i][1]]) \o <<":", " ">> \o py_repr(d[i][2])
         \o py_str_items(d, i + 1)

py_str(d) == <<"{">> \o py_str_items(d, 1) \o <<"}">>

TextFields == <<S_title, S_content, S_description, S_text, S_summary>>

\* analyze_document, lines 173-178: the text of the common fields from the i-th on
RECURSIVE fields_text(_, _)
fields_text(d, i) ==
    IF i > Len(TextFields) THEN <<>>
    ELSE (IF dict_has(d, TextFields[i]) /\ dict_get(d, TextFields[i]).t = "str"
          THEN dict_get(d, TextFields[i]).v \o <<" ">> ELSE <<>>)
         \o fields_text(d, i + 1)

\* the text of the common fields alone, without lines 181-182
document_text_fields_only(d) == fields_text(d, 1)

\* analyze_document, lines 173-182: the text that is analyzed
document_text(d) == IF fields_text(d, 1) # <<>> THEN fields_text(d, 1) ELSE py_str(d)

\* analyze_document, lines 159-187
analyze_document_of(cfg, order, d) ==
    LET results == analyze_text_of(cfg, order, document_text(d))
    IN [matched |-> results # <<>>, results |-> results]

\* filter_documents, lines 204-212: the loop from the i-th document on
RECURSIVE filter_loop(_, _, _, _, _)
filter_loop(cfg, order, docs, i, matching) ==
    IF i > Len(docs) THEN [value |-> matching, evaluated |-> i - 1]
    ELSE IF analyze_document_of(cfg, order, docs[i]).matched
         THEN LET appended == Append(matching, docs[i])
              IN IF Len(appended) >= cfg.max_results
                 THEN [value |-> appended, evaluated |-> i]
                 ELSE filter_loop(cfg, order, docs, i + 1, appended)
         ELSE filter_loop(cfg, order, docs, i + 1, matching)

\* filter_documents, lines 189-215: the list returned and how many docs
\* were analyzed
filter_documents_of(cfg, order, docs) ==
    IF docs = <<>> THEN [value |-> <<>>, evaluated |-> 0]
    ELSE filter_loop(cfg, order, docs, 1, <<>>)

\* total_stats[keyword] = count in both branches of line 236
RECURSIVE dict_add_overwriting(_, _, _)
dict_add_overwriting(d, key, count) ==
    IF d = <<>> THEN <<(<<key, count>>)>>
    ELSE IF Head(d)[1] = key THEN <<(<<key, count>>)>> \o Tail(d)
    ELSE <<Head(d)>> \o dict_add_overwriting(Tail(d), key, count)

\* total_stats[keyword] += count, or = count for a new key (lines 236-239)
RECURSIVE dict_add(_, _, _)
dict_add(d, key, count) ==
    IF d = <<>> THEN <<(<<key, count>>)>>
    ELSE IF Head(d)[1] = key THEN <<(<<key, Head(d)[2] + count>>)>> \o Tail(d)
    ELSE <<Head(d)>> \o dict_add(Tail(d), key, count)

RECURSIVE dict_add_all(_, _)
dict_add_all(d, items) ==
    IF items = <<>> THEN d
    ELSE dict_add_all(dict_add(d, Head(items)[1], Head(items)[2]), Tail(items))

\* get_document_keyword_stats, lines 232-239: the loop from the i-th document on
RECURSIVE total_stats_loop(_, _, _, _, _)
total_stats_loop(cfg, order, docs, i, total_stats) ==
    IF i > Len(docs) THEN total_stats
    ELSE total_stats_loop(cfg, order, docs, i + 1,
            dict_add_all(total_stats, analyze_document_of(cfg, order, docs[i]).results))

\* a sort that is not stable under reverse: item goes before the items of equal count
RECURSIVE insert_by_count_desc_unstable(_, _)
insert_by_count_desc_unstable(sorted, item) ==
    IF sorted = <<>> THEN <<item>>
    ELSE IF Head(sorted)[2] <= item[2] THEN <<item>> \o sorted
    ELSE <<Head(sorted)>> \o insert_by_count_desc_unstable(Tail(sorted), item)

\* one step of the stable sort: item goes after every item whose count is not smaller
RECURSIVE insert_by_count_desc(_, _)
insert_by_count_desc(sorted, item) ==
    IF sorted = <<>> THEN <<item>>
    ELSE IF Head(sorted)[2] < item[2] THEN <<item>> \o sorted
    ELSE <<Head(sorted)>> \o insert_by_count_desc(Tail(sorted), item)

\* sorted(items, key=lambda item: item[1], reverse=True): stable, descending
RECURSIVE sorted_by_count_desc_from(_, _, _)
sorted_by_count_desc_from(items, i, sorted) ==
    IF i > Len(items) THEN sorted
    ELSE sorted_by_count_desc_from(items, i + 1, insert_by_count_desc(sorted, items[i]))

sorted_by_count_desc(items) == sorted_by_count_desc_from(items, 1, <<>>)

\* get_document_keyword_stats, lines 217-244
get_document_keyword_stats_of(cfg, order, docs) ==
    IF docs = <<>> THEN <<>>
    ELSE sorted_by_count_desc(total_stats_loop(cfg, order, docs, 1, <<>>))

(***************************************************************************)
(* Inputs.                                                                 *)
(***************************************************************************)
StrVal(s) == [t |-> "str", v |-> s]
IntVal(s) == [t |-> "int", v |-> s]

Doc_fintech == <<(<<S_title, StrVal(S_Fintech_growth)>>), (<<S_content, StrVal(S_fintech_is_booming)>>)>>
Doc_other == <<(<<S_title, StrVal(S_Other)>>), (<<S_content, StrVal(S_nothing_relevant)>>)>>
Doc_untyped == <<(<<S_title, IntVal(S_7)>>), (<<S_id, StrVal(S_tech_tech)>>)>>

Docs == {Doc_fintech, Doc_other, Doc_untyped}

DocLists == UNION {[1..n -> Docs] : n \in 0..MaxDocs}

Texts == {<<>>, S_FinTech, S_fintechnology, S_aaaa, S_high_tech}

RawKeywords == {S_fintech, S_FinTech, S_aa, S_pad_a}

\* texts, keyword files, an added keyword and documents for the matcher alone
MatchTexts ==
    {<<>>, S_FinTech, S_fintechnology, S_aaaa, S_aaa, S_cpp_fintech, S_fintech_us,
     S_a_fintech_FINTECH}

Doc_summary == <<(<<S_title, IntVal(S_7)>>), (<<S_summary, StrVal(S_high_tech)>>)>>
Doc_unordered == <<(<<S_content, StrVal(S_aaa)>>), (<<S_title, StrVal(S_high_tech)>>)>>

MatchDocs == {Doc_fintech, Doc_untyped, Doc_summary, Doc_unordered}

File(lines) == [exists |-> TRUE, lines |-> lines]
NoFile == [exists |-> FALSE, lines |-> <<>>]

KeywordFiles == {File(<<S_fintech, S_tech>>), File(<<S_FinTech, <<>>, S_aa, S_pad_a>>), NoFile}

MatchKeywordFiles == {File(<<S_fintech, S_aa>>), File(<<S_FinTech, S_cpp>>)}

MinKeywordLengths == {2, 3}

\* KeywordAnalyzer.__init__, lines 33-43: the default configuration, updated
Configs ==
    [case_sensitive : BOOLEAN, match_whole_word : BOOLEAN,
     min_keyword_length : MinKeywordLengths, max_results : 0..MaxResults]

(***************************************************************************)
(* KeywordAnalyzer: the operations.                                        *)
(***************************************************************************)
\* KeywordAnalyzer.__init__, lines 29-46
construct(cfg, file) ==
    /\ config = cfg
    /\ keyword_file = file
    /\ keywords \in orders_after_adds(<<>>, loaded_keywords(cfg, file))
    /\ ret = [op |-> "__init__"]

\* load_keywords, lines 50-74, of the default path
load_keywords ==
    /\ keywords' \in orders_after_adds(keywords, loaded_keywords(config, keyword_file))
    /\ ret' = [op |-> "load_keywords", raised |-> FALSE]
    /\ UNCHANGED <<config, keyword_file, rg_config, data_dir, documents, fetcher_config, manager_vars, scheduler_vars>>

add_keyword(keyword) ==
    /\ keywords' \in orders_after_adds(keywords, added_keywords(config, keyword))
    /\ ret' = [op |-> "add_keyword", arg |-> keyword, raised |-> FALSE,
               again |-> ret.op = "add_keyword" /\ ret.arg = keyword]
    /\ UNCHANGED <<config, keyword_file, rg_config, data_dir, documents, fetcher_config, manager_vars, scheduler_vars>>

remove_keyword(keyword) ==
    LET r == remove_keyword_result(config, keywords, keyword) IN
    /\ keywords' = r.order
    /\ ret' = [op |-> "remove_keyword", arg |-> keyword, raised |-> r.raised,
               found |-> r.found,
               again |-> ret.op = "remove_keyword" /\ ret.arg = keyword]
    /\ UNCHANGED <<config, keyword_file, rg_config, data_dir, documents, fetcher_config, manager_vars, scheduler_vars>>

\* save_keywords, lines 114-122, to the default path
save_keywords ==
    /\ keyword_file' = File(sorted_strs(keywords))
    /\ ret' = [op |-> "save_keywords", raised |-> FALSE]
    /\ UNCHANGED <<config, keywords, rg_config, data_dir, documents, fetcher_config, manager_vars, scheduler_vars>>

analyze_text(text) ==
    /\ ret' = [op |-> "analyze_text", arg |-> text,
               value |-> analyze_text_of(config, keywords, text)]
    /\ UNCHANGED <<config, keywords, keyword_file, rg_config, data_dir, documents, fetcher_config, manager_vars, scheduler_vars>>

analyze_document(document) ==
    /\ ret' = [op |-> "analyze_document", arg |-> document,
               value |-> analyze_document_of(config, keywords, document)]
    /\ UNCHANGED <<config, keywords, keyword_file, rg_config, data_dir, documents, fetcher_config, manager_vars, scheduler_vars>>

filter_documents ==
    /\ ret' = [op |-> "filter_documents", arg |-> documents]
              @@ filter_documents_of(config, keywords, documents)
    /\ UNCHANGED <<config, keywords, keyword_file, rg_config, data_dir, documents, fetcher_config, manager_vars, scheduler_vars>>

get_document_keyword_stats ==
    /\ ret' = [op |-> "get_document_keyword_stats", arg |-> documents,
               value |-> get_document_keyword_stats_of(config, keywords, documents)]
    /\ UNCHANGED <<config, keywords, keyword_file, rg_config, data_dir, documents, fetcher_config, manager_vars, scheduler_vars>>

(***************************************************************************)
(* ReportGenerator: the documents of a period.                             *)
(* data_dir is the list of the CSV files of the data directory, a file     *)
(* being [date, rows]: the day whose date string its name holds, and the   *)
(* rows csv.DictReader reads from it.  The file the fetcher writes is       *)
(* [year, rows]: its name, plenary_documents_<year>.csv, holds no '-' and   *)
(* so no date string.                                                      *)
(***************************************************************************)
CsvFile(date, rows) == [date |-> date, rows |-> rows]

\* _save_documents_to_csv, line 104: plenary_documents_<year>.csv
YearFile(year, rows) == [year |-> year, rows |-> rows]

\* _collect_daily_documents, lines 266-285: the rows of the files from the i-th
\* on whose name matches *<date_str>*.csv
RECURSIVE collect_daily_from(_, _, _)
collect_daily_from(dir, date, i) ==
    IF i > Len(dir) THEN <<>>
    ELSE (IF "date" \in DOMAIN dir[i] /\ dir[i].date = date THEN dir[i].rows ELSE <<>>)
         \o collect_daily_from(dir, date, i + 1)

collect_daily_documents(dir, date) == collect_daily_from(dir, date, 1)

\* _collect_weekly_documents, lines 299-305: the days the loop visits
RECURSIVE collected_days(_, _)
collected_days(current_date, end_date) ==
    IF current_date <= end_date
    THEN <<current_date>> \o collected_days(current_date + 1, end_date)
    ELSE <<>>

\* _collect_weekly_documents, lines 298-308: the documents of the days visited
RECURSIVE documents_of_days(_, _)
documents_of_days(dir, days) ==
    IF days = <<>> THEN <<>>
    ELSE collect_daily_documents(dir, Head(days)) \o documents_of_days(dir, Tail(days))

\* _analyze_trends with the first half ending a day early when days is odd
trend_windows_second_longer(days, end_date) ==
    LET start_date == end_date - days
        mid_date == start_date + (days \div 2) - (days % 2)
    IN [first |-> collected_days(start_date, mid_date),
        second |-> collected_days(mid_date + 1, end_date)]

\* _analyze_trends with the second half starting on mid_date
trend_windows_overlapping(days, end_date) ==
    LET start_date == end_date - days
        mid_date == start_date + (days \div 2)
    IN [first |-> collected_days(start_date, mid_date),
        second |-> collected_days(mid_date, end_date)]

\* _analyze_trends, lines 404-412: the days collected for each half
trend_windows(days, end_date) ==
    LET start_date == end_date - days
        mid_date == start_date + (days \div 2)
    IN [first |-> collected_days(start_date, mid_date),
        second |-> collected_days(mid_date + 1, end_date)]

(***************************************************************************)
(* ReportGenerator: keyword statistics.                                    *)
(***************************************************************************)
\* json.dumps(document, ensure_ascii=False), from the i-th item on (the
\* strings of the model hold nothing that is escaped)
json_value(x) == IF x.t = "str" THEN <<"\"">> \o x.v \o <<"\"">> ELSE x.v

RECURSIVE json_items(_, _)
json_items(d, i) ==
    IF i > Len(d) THEN <<>>
    ELSE (IF i > 1 THEN <<",", " ">> ELSE <<>>)
         \o json_value([t |-> "str", v |-> d[i][1]]) \o <<":", " ">> \o json_value(d[i][2])
         \o json_items(d, i + 1)

json_dumps(d) == <<"{">> \o json_items(d, 1) \o <<"}">>

\* text.count(sub) for a sub that is not empty, from position p on
RECURSIVE str_count(_, _, _)
str_count(text, sub, p) ==
    IF p + Len(sub) - 1 > Len(text) THEN 0
    ELSE IF literal_at(sub, text, p) THEN 1 + str_count(text, sub, p + Len(sub))
    ELSE str_count(text, sub, p + 1)

\* _load_keywords, lines 356-371: the lines that are not blank, stripped, from
\* the i-th on
RECURSIVE report_keywords_from(_, _)
report_keywords_from(lines, i) ==
    IF i > Len(lines) THEN <<>>
    ELSE (IF str_strip(lines[i]) # <<>> THEN <<str_strip(lines[i])>> ELSE <<>>)
         \o report_keywords_from(lines, i + 1)

\* _load_keywords: the iteration orders of the set returned
report_keyword_orders(file) ==
    IF ~file.exists THEN {<<>>}
    ELSE orders_after_adds(<<>>, report_keywords_from(file.lines, 1))

\* _analyze_keyword_stats, lines 333-341: the loop over the keywords from the
\* k-th on, for one document text
RECURSIVE count_keywords(_, _, _, _)
count_keywords(keyword_counts, order, doc_text, k) ==
    IF k > Len(order) THEN keyword_counts
    ELSE LET count == str_count(doc_text, str_lower(order[k]), 1)
         IN count_keywords(IF count > 0 THEN dict_add(keyword_counts, order[k], count)
                           ELSE keyword_counts,
                           order, doc_text, k + 1)

\* _analyze_keyword_stats, lines 329-341: the loop over the documents from the
\* i-th on
RECURSIVE keyword_counts_loop(_, _, _, _)
keyword_counts_loop(keyword_counts, order, docs, i) ==
    IF i > Len(docs) THEN keyword_counts
    ELSE keyword_counts_loop(
             count_keywords(keyword_counts, order, str_lower(json_dumps(docs[i])), 1),
             order, docs, i + 1)

\* _analyze_keyword_stats, lines 320-347, the set of keywords iterating in `order`
analyze_keyword_stats(order, docs) ==
    IF docs = <<>> THEN <<>>
    ELSE sorted_by_count_desc(keyword_counts_loop(<<>>, order, docs, 1))

\* _analyze_keyword_stats, lines 310-347, on the documents of the state
report_analyze_keyword_stats ==
    \E order \in report_keyword_orders(keyword_file) :
        /\ ret' = [op |-> "_analyze_keyword_stats", arg |-> documents,
                   value |-> analyze_keyword_stats(order, documents)]
        /\ UNCHANGED <<config, keywords, keyword_file, rg_config, data_dir, documents, fetcher_config, manager_vars, scheduler_vars>>

(***************************************************************************)
(* ReportGenerator: trends.                                                *)
(***************************************************************************)
RECURSIVE gcd(_, _)
gcd(a, b) == IF b = 0 THEN a ELSE gcd(b, a % b)

Abs(n) == IF n < 0 THEN 0 - n ELSE n

\* the float n / d, d > 0, as a fraction in lowest terms
Frac(n, d) ==
    LET g == gcd(Abs(n), d) IN [num |-> n \div g, den |-> d \div g]

frac_mul(x, n) == Frac(x.num * n, x.den)

\* abs(x) < abs(y)
frac_abs_less(x, y) == Abs(x.num) * y.den < Abs(y.num) * x.den

dict_get_or(d, key, default) == IF dict_has(d, key) THEN dict_get(d, key) ELSE default

\* lines 429-434 with the halves exchanged in the quotient
trend_of_swapped(first_count, second_count) ==
    IF first_count > 0 THEN frac_mul(Frac(first_count - second_count, first_count), 100)
    ELSE IF second_count > 0 THEN Frac(100, 1)
    ELSE Frac(0, 1)

\* _analyze_trends, lines 429-434: the percentage change
trend_of(first_count, second_count) ==
    IF first_count > 0 THEN frac_mul(Frac(second_count - first_count, first_count), 100)
    ELSE IF second_count > 0 THEN Frac(100, 1)
    ELSE Frac(0, 1)

\* _analyze_trends, lines 424-436: the loop over all_keywords from the i-th on
RECURSIVE trends_loop(_, _, _, _)
trends_loop(all_keywords, first_half_stats, second_half_stats, i) ==
    IF i > Len(all_keywords) THEN <<>>
    ELSE <<(<<all_keywords[i],
              trend_of(dict_get_or(first_half_stats, all_keywords[i], 0),
                       dict_get_or(second_half_stats, all_keywords[i], 0))>>)>>
         \o trends_loop(all_keywords, first_half_stats, second_half_stats, i + 1)

\* one step of a sort by the signed value
RECURSIVE insert_by_signed_desc(_, _)
insert_by_signed_desc(sorted, item) ==
    IF sorted = <<>> THEN <<item>>
    ELSE IF Head(sorted)[2].num * item[2].den < item[2].num * Head(sorted)[2].den
         THEN <<item>> \o sorted
    ELSE <<Head(sorted)>> \o insert_by_signed_desc(Tail(sorted), item)

\* one step of the stable sort: item goes after every item whose absolute value
\* is not smaller
RECURSIVE insert_by_abs_desc(_, _)
insert_by_abs_desc(sorted, item) ==
    IF sorted = <<>> THEN <<item>>
    ELSE IF frac_abs_less(Head(sorted)[2], item[2]) THEN <<item>> \o sorted
    ELSE <<Head(sorted)>> \o insert_by_abs_desc(Tail(sorted), item)

\* sorted(items, key=lambda item: abs(item[1]), reverse=True)
RECURSIVE sorted_by_abs_desc_from(_, _, _)
sorted_by_abs_desc_from(items, i, sorted) ==
    IF i > Len(items) THEN sorted
    ELSE sorted_by_abs_desc_from(items, i + 1, insert_by_abs_desc(sorted, items[i]))

sorted_by_abs_desc(items) == sorted_by_abs_desc_from(items, 1, <<>>)

RECURSIVE seq_of_set(_)
seq_of_set(S) ==
    IF S = {} THEN <<>> ELSE LET x == CHOOSE x \in S : TRUE IN <<x>> \o seq_of_set(S \ {x})

\* the iteration orders of a set of str built in one go
set_orders(S) == orders_after_adds(<<>>, seq_of_set(S))

\* the keywords counted in both halves
all_keywords_in_both(first_half_stats, second_half_stats) ==
    dict_keys(first_half_stats) \cap dict_keys(second_half_stats)

\* _analyze_trends, line 422: all_keywords
all_keywords_of(first_half_stats, second_half_stats) ==
    dict_keys(first_half_stats) \cup dict_keys(second_half_stats)

\* _analyze_trends, lines 393-442; the sets of keywords iterate in the orders
\* the interpreter gives them
analyze_trends(end_date) ==
    \E order \in report_keyword_orders(keyword_file) :
        LET windows == trend_windows(rg_config.trend_analysis_days, end_date)
            first_half_stats ==
                analyze_keyword_stats(order, documents_of_days(data_dir, windows.first))
            second_half_stats ==
                analyze_keyword_stats(order, documents_of_days(data_dir, windows.second))
        IN \E all_keywords \in set_orders(all_keywords_of(first_half_stats,
                                                         second_half_stats)) :
            /\ ret' = [op |-> "_analyze_trends", arg |-> end_date,
                       first_days |-> windows.first,
                       second_days |-> windows.second,
                       first_half_stats |-> first_half_stats,
                       second_half_stats |-> second_half_stats,
                       value |-> sorted_by_abs_desc(
                           trends_loop(all_keywords, first_half_stats,
                                       second_half_stats, 1))]
            /\ UNCHANGED <<config, keywords, keyword_file, rg_config, data_dir, documents, fetcher_config, manager_vars, scheduler_vars>>

(***************************************************************************)
(* ReportGenerator: predictions.                                           *)
(***************************************************************************)
frac_times(x, y) == Frac(x.num * y.num, x.den * y.den)

frac_less(x, y) == x.num * y.den < y.num * x.den

\* 1 + (trend / 100), line 476
growth_of(trend) == Frac(100 * trend.den + trend.num, 100 * trend.den)

\* the prediction kept as it was computed
max_0_unclamped(x) == x

\* max(0, predicted_total), line 479
max_0(x) == IF frac_less(Frac(0, 1), x) THEN x ELSE Frac(0, 1)

\* _generate_predictions, lines 470-477, for days that is not 0
predicted_total_of(current_count, days, trend, prediction_horizon) ==
    frac_times(frac_times(Frac(current_count, days), growth_of(trend)),
               Frac(prediction_horizon, 1))

\* _generate_predictions, lines 467-479: the loop over trend_data from the
\* i-th item on, for days that is not 0
RECURSIVE predictions_loop(_, _, _, _)
predictions_loop(cfg, trend_data, historical_stats, i) ==
    IF i > Len(trend_data) THEN <<>>
    ELSE (IF dict_has(historical_stats, trend_data[i][1])
          THEN <<(<<trend_data[i][1],
                    max_0(predicted_total_of(dict_get(historical_stats, trend_data[i][1]),
                                             cfg.trend_analysis_days, trend_data[i][2],
                                             cfg.prediction_horizon_days))>>)>>
          ELSE <<>>)
         \o predictions_loop(cfg, trend_data, historical_stats, i + 1)

\* a division by days that does not wait for a keyword of historical_stats
divides_by_zero_unguarded(cfg, trend_data, historical_stats) ==
    cfg.trend_analysis_days = 0 /\ trend_data # <<>>

\* line 472 divides by days for the first keyword found in historical_stats
divides_by_zero(cfg, trend_data, historical_stats) ==
    /\ cfg.trend_analysis_days = 0
    /\ \E i \in 1..Len(trend_data) : dict_has(historical_stats, trend_data[i][1])

\* a sort that keeps the items as they come
insert_unsorted(sorted, item) == Append(sorted, item)

\* one step of the stable sort: item goes after every item whose value is
\* not smaller
RECURSIVE insert_by_value_desc(_, _)
insert_by_value_desc(sorted, item) ==
    IF sorted = <<>> THEN <<item>>
    ELSE IF frac_less(Head(sorted)[2], item[2]) THEN <<item>> \o sorted
    ELSE <<Head(sorted)>> \o insert_by_value_desc(Tail(sorted), item)

\* sorted(predictions.items(), key=lambda item: item[1], reverse=True)
RECURSIVE sorted_by_value_desc_from(_, _, _)
sorted_by_value_desc_from(items, i, sorted) ==
    IF i > Len(items) THEN sorted
    ELSE sorted_by_value_desc_from(items, i + 1, insert_by_value_desc(sorted, items[i]))

sorted_by_value_desc(items) == sorted_by_value_desc_from(items, 1, <<>>)

\* _generate_predictions, lines 444-485; now is the day datetime.now() gives
generate_predictions(trend_data, now) ==
    \E order \in report_keyword_orders(keyword_file) :
        LET historical_stats ==
                IF trend_data = <<>> THEN <<>>
                ELSE analyze_keyword_stats(order,
                         documents_of_days(data_dir,
                             collected_days(now - rg_config.trend_analysis_days, now)))
            raised == divides_by_zero(rg_config, trend_data, historical_stats)
        IN /\ ret' = [op |-> "_generate_predictions", arg |-> trend_data, now |-> now,
                      historical_stats |-> historical_stats,
                      raised |-> raised,
                      value |-> IF raised THEN <<>>
                                ELSE sorted_by_value_desc(
                                         predictions_loop(rg_config, trend_data,
                                                          historical_stats, 1))]
           /\ UNCHANGED <<config, keywords, keyword_file, rg_config, data_dir, documents, fetcher_config, manager_vars, scheduler_vars>>

\* generate_weekly_predictive_report, lines 150-181, 241-248: end_date is the
\* argument when given is true and datetime.now() when it is not; now is the
\* day datetime.now() gives
generate_weekly_predictive_report(given, end_date_arg, now) ==
    LET end_date == IF given THEN end_date_arg ELSE now
        start_date == end_date - 7
        windows == trend_windows(rg_config.trend_analysis_days, end_date)
    IN \E order \in report_keyword_orders(keyword_file),
          weekly_documents \in
              {documents_of_days(data_dir, collected_days(start_date, end_date))} :
       \E first_half_stats \in
              {analyze_keyword_stats(order, documents_of_days(data_dir, windows.first))},
          second_half_stats \in
              {analyze_keyword_stats(order, documents_of_days(data_dir, windows.second))} :
       \E all_keywords \in set_orders(all_keywords_of(first_half_stats,
                                                       second_half_stats)) :
       \E trend_data \in {sorted_by_abs_desc(trends_loop(all_keywords, first_half_stats,
                                                         second_half_stats, 1))} :
       \E historical_days \in
              {IF trend_data = <<>> THEN <<>>
               ELSE collected_days(now - rg_config.trend_analysis_days, now)} :
       \E historical_stats \in
              {IF trend_data = <<>> THEN <<>>
               ELSE analyze_keyword_stats(order,
                                          documents_of_days(data_dir, historical_days))} :
           LET raised == divides_by_zero(rg_config, trend_data, historical_stats)
           IN /\ ret' = [op |-> "generate_weekly_predictive_report",
                         given |-> given, end_date |-> end_date, now |-> now,
                         weekly_documents |-> weekly_documents,
                         weekly_keyword_stats |->
                             analyze_keyword_stats(order, weekly_documents),
                         trend_data |-> trend_data,
                         historical_days |-> historical_days,
                         historical_stats |-> historical_stats,
                         raised |-> raised,
                         predictions |-> IF raised THEN <<>>
                                         ELSE sorted_by_value_desc(
                                                  predictions_loop(rg_config, trend_data,
                                                                   historical_stats, 1))]
              /\ UNCHANGED <<config, keywords, keyword_file, rg_config, data_dir,
                             documents, fetcher_config, manager_vars, scheduler_vars>>

\* _collect_daily_documents, lines 256-285, for one date
report_collect_daily_documents(date) ==
    /\ ret' = [op |-> "_collect_daily_documents", arg |-> date,
               value |-> collect_daily_documents(data_dir, date),
               fetched |-> IF ret.op = "fetch_plenary_documents" THEN <<ret>> ELSE <<>>]
    /\ UNCHANGED <<config, keywords, keyword_file, rg_config, data_dir, documents,
                   fetcher_config, manager_vars, scheduler_vars>>

(***************************************************************************)
(* EUParliamentDataFetcher (data_fetcher/eu_parliament_fetcher.py).  The   *)
(* answer of the API is [ok, documents]: the request succeeded or raised  *)
(* RequestException, and the list response.json() gives.                   *)
(***************************************************************************)
\* _save_documents_to_csv, line 110: documents[0].keys()
fieldnames_of(document) == [i \in 1..Len(document) |-> document[i][1]]

\* csv.DictWriter.writerow and csv.DictReader: the fields of the header, a
\* value as its str(), a missing one as ''
csv_row(fieldnames, document) ==
    [i \in 1..Len(fieldnames) |->
        <<fieldnames[i],
          StrVal(IF dict_has(document, fieldnames[i])
                 THEN dict_get(document, fieldnames[i]).v ELSE <<>>)>>]

\* csv.DictWriter.writerows, line 119: the rows written before a document
\* with a key the header lacks raises ValueError
RECURSIVE csv_rows_from(_, _, _)
csv_rows_from(fieldnames, docs, i) ==
    IF i > Len(docs) \/ ~(dict_keys(docs[i]) \subseteq Range(fieldnames)) THEN <<>>
    ELSE <<csv_row(fieldnames, docs[i])>> \o csv_rows_from(fieldnames, docs, i + 1)

\* the data directory after open(csv_file, 'w'): the file of the year is
\* made or truncated
RECURSIVE dir_with_file(_, _, _)
dir_with_file(dir, file, i) ==
    IF i > Len(dir) THEN <<file>>
    ELSE IF "year" \in DOMAIN dir[i] /\ dir[i].year = file.year
         THEN <<file>> \o SubSeq(dir, i + 1, Len(dir))
    ELSE <<dir[i]>> \o dir_with_file(dir, file, i + 1)

\* _save_documents_to_csv, lines 91-124: the data directory it leaves
save_documents_to_csv(dir, docs, year) ==
    IF docs = <<>> THEN dir
    ELSE dir_with_file(dir, YearFile(year, csv_rows_from(fieldnames_of(docs[1]), docs, 1)),
                       1)

\* fetch_plenary_documents, lines 50-89; year is the argument, or the year of
\* datetime.now() when there is none
fetch_plenary_documents(year, response) ==
    /\ data_dir' = IF response.ok /\ fetcher_config.csv_storage
                   THEN save_documents_to_csv(data_dir, response.documents, year)
                   ELSE data_dir
    /\ documents' = IF response.ok THEN response.documents ELSE <<>>
    /\ ret' = [op |-> "fetch_plenary_documents", year |-> year, ok |-> response.ok,
               value |-> IF response.ok THEN response.documents ELSE <<>>]
    /\ UNCHANGED <<config, keywords, keyword_file, rg_config, fetcher_config,
                   manager_vars, scheduler_vars>>

(***************************************************************************)
(* ConfigManager.  A configuration is a function from module names to      *)
(* functions from keys to values, a value being [t, v]: its type and its   *)
(* text.  Two names can hold one dict object: cm_config tells whether      *)
(* self.config is the object self.default_config (same_object), which      *)
(* module dicts of self.config are the module dicts of                     *)
(* self.default_config (shared), and holds the module dicts of its own     *)
(* (own).  The file system accepts every write.                            *)
(***************************************************************************)
Value(t, v) == [t |-> t, v |-> v]

\* ConfigManager.__init__, lines 33-92: two of the modules, with the keys kept
DefaultConfig ==
    [general |-> [debug_mode |-> Value("bool", "False"), log_level |-> Value("str", "INFO")],
     scheduler |-> [timezone |-> Value("str", "Europe/Rome")]]

\* d[key] = value on a dict
dict_set(d, key, value) == [x \in DOMAIN d \cup {key} |-> IF x = key THEN value ELSE d[x]]

\* json.dump followed by json.load, on one value: a tuple comes back as a list
json_of_value(x) == IF x.t = "tuple" THEN Value("list", x.v) ELSE x

\* json.dump followed by json.load, lines 116 and 147
json_of_config(c) == [m \in DOMAIN c |-> [k \in DOMAIN c[m] |-> json_of_value(c[m][k])]]

JsonFile(c) == [kind |-> "json", content |-> json_of_config(c)]
AbsentFile == [kind |-> "absent", content |-> <<>>]
InvalidFile == [kind |-> "invalid", content |-> <<>>]

\* self.config is the object self.default_config
Aliased == [same_object |-> TRUE, shared |-> {}, own |-> <<>>]

\* self.config is a dict whose module dicts no other name holds
Own(c) == [same_object |-> FALSE, shared |-> {}, own |-> c]

\* the modules, keys and values that self.config holds
config_dict(cm, dflt) ==
    IF cm.same_object THEN dflt
    ELSE [m \in cm.shared \cup DOMAIN cm.own |->
             IF m \in cm.shared THEN dflt[m] ELSE cm.own[m]]

\* _update_with_defaults, lines 231-254: the dict returned
update_with_defaults(dflt, cfg) ==
    [m \in DOMAIN dflt \cup DOMAIN cfg |->
        IF m \notin DOMAIN cfg THEN dflt[m]
        ELSE IF m \notin DOMAIN dflt THEN cfg[m]
        ELSE [k \in DOMAIN dflt[m] \cup DOMAIN cfg[m] |->
                 IF k \in DOMAIN cfg[m] THEN cfg[m][k] ELSE dflt[m][k]]]

\* _update_with_defaults, lines 241 and 250-252: the dict passed in, after the
\* call; config.copy() is shallow, so the keys added to a module of the copy
\* are added to the module dict of the dict passed in
config_after_update(dflt, cfg) == [m \in DOMAIN cfg |-> update_with_defaults(dflt, cfg)[m]]

\* load_config, lines 107-133: the dict returned, whether it is the object
\* self.default_config, and the file left behind
load_config_result(dflt, file) ==
    IF file.kind # "json"
    THEN [value |-> dflt, alias |-> TRUE, file |-> JsonFile(dflt)]
    ELSE LET updated_config == update_with_defaults(dflt, file.content)
             loaded == config_after_update(dflt, file.content)
         IN IF updated_config # loaded
            THEN [value |-> updated_config, alias |-> FALSE, file |-> JsonFile(updated_config)]
            ELSE [value |-> loaded, alias |-> FALSE, file |-> file]

\* ConfigManager.__init__, lines 28-95
construct_manager(file) ==
    LET r == load_config_result(DefaultConfig, file) IN
    /\ default_config = DefaultConfig
    /\ cm_config = (IF r.alias THEN Aliased ELSE Own(r.value))
    /\ config_file = r.file
    /\ ret = [op |-> "__init__", file |-> file, value |-> r.value]

\* load_config, lines 99-133, called on the manager: the dict is returned,
\* self.config stays as it is
load_config ==
    LET r == load_config_result(default_config, config_file) IN
    /\ config_file' = r.file
    /\ ret' = [op |-> "load_config", file |-> config_file, value |-> r.value,
               saved |-> IF ret.op = "save_config" THEN <<ret.arg>> ELSE <<>>]
    /\ UNCHANGED <<default_config, cm_config>>
    /\ UNCHANGED <<config, keywords, keyword_file, rg_config, data_dir, documents, fetcher_config,
                   scheduler_vars>>

\* save_config, lines 135-154
save_config(c) ==
    /\ config_file' = JsonFile(c)
    /\ ret' = [op |-> "save_config", arg |-> c, value |-> c]
    /\ UNCHANGED <<default_config, cm_config>>
    /\ UNCHANGED <<config, keywords, keyword_file, rg_config, data_dir, documents, fetcher_config,
                   scheduler_vars>>

\* get_config, lines 156-169; module "" stands for None
get_config(module) ==
    LET c == config_dict(cm_config, default_config) IN
    /\ ret' = [op |-> "get_config", arg |-> module,
               value |-> IF module # "" /\ module \in DOMAIN c THEN c[module] ELSE c,
               loaded |-> IF ret.op = "load_config" THEN <<ret>> ELSE <<>>]
    /\ UNCHANGED <<default_config, cm_config, config_file>>
    /\ UNCHANGED <<config, keywords, keyword_file, rg_config, data_dir, documents, fetcher_config,
                   scheduler_vars>>

\* an update that asks for the module alone
update_found_module_only(c, module, key) == module \in DOMAIN c

\* update_config, lines 183-189: the module and the key are there
update_found(c, module, key) == module \in DOMAIN c /\ key \in DOMAIN c[module]

\* update_config, lines 171-198
update_config(module, key, value) ==
    LET c == config_dict(cm_config, default_config)
        found == update_found(c, module, key)
        through_default == cm_config.same_object \/ module \in cm_config.shared
    IN /\ IF ~found THEN UNCHANGED <<default_config, cm_config, config_file>>
          ELSE /\ default_config' = (IF through_default
                                     THEN [default_config EXCEPT ![module][key] = value]
                                     ELSE default_config)
               /\ cm_config' = (IF through_default THEN cm_config
                                ELSE [cm_config EXCEPT !.own[module][key] = value])
               /\ config_file' = JsonFile(config_dict(cm_config', default_config'))
       /\ ret' = [op |-> "update_config", module |-> module, key |-> key, value |-> value,
                  result |-> found, config_before |-> c, file_before |-> config_file]
       /\ UNCHANGED <<config, keywords, keyword_file, rg_config, data_dir, documents, fetcher_config,
                      scheduler_vars>>

\* reset_to_default, lines 200-229; module "" stands for None
reset_to_default(module) ==
    /\ IF module # "" /\ module \notin DOMAIN default_config
       THEN /\ UNCHANGED <<default_config, cm_config, config_file>>
            /\ ret' = [op |-> "reset_to_default", arg |-> module, result |-> FALSE]
       ELSE /\ cm_config' =
                  (IF module = ""
                   THEN [same_object |-> FALSE, shared |-> DOMAIN default_config, own |-> <<>>]
                   ELSE IF cm_config.same_object THEN cm_config
                   ELSE [same_object |-> FALSE, shared |-> cm_config.shared \ {module},
                         own |-> dict_set(cm_config.own, module, default_config[module])])
            /\ UNCHANGED default_config
            /\ config_file' = JsonFile(config_dict(cm_config', default_config))
            /\ ret' = [op |-> "reset_to_default", arg |-> module, result |-> TRUE]
    /\ UNCHANGED <<config, keywords, keyword_file, rg_config, data_dir, documents, fetcher_config,
                   scheduler_vars>>

(***************************************************************************)
(* Scheduler (utils/scheduler.py).  A thread made by start() is at the     *)
(* while test, inside schedule.run_pending(), inside time.sleep(1), or has *)
(* left _run_scheduler.  start() and stop() are called by one thread, the  *)
(* caller; inside stop() it waits in join().                               *)
(***************************************************************************)
S_cron_0_12_0 == <<"0", " ", "1", "2", " ", "*", " ", "*", " ", "0">>
S_cron_0_12_6 == <<"0", " ", "1", "2", " ", "*", " ", "*", " ", "6">>
S_cron_30_08_7 == <<"3", "0", " ", "0", "8", " ", "*", " ", "*", " ", "7">>
S_cron_0_12_any == <<"0", " ", "1", "2", " ", "*", " ", "*", " ", "*">>
S_cron_0_18 == <<"0", " ", "1", "8", " ", "*", " ", "*", " ", "*">>
S_cron_0_12 == <<"0", " ", "1", "2">>
S_colon_00 == <<":", "0", "0">>

\* str.split(): the fields between runs of whitespace
RECURSIVE str_split_from(_, _, _)
str_split_from(s, i, field) ==
    LET closed == IF field = <<>> THEN <<>> ELSE <<field>>
    IN IF i > Len(s) THEN closed
       ELSE IF is_space(s[i]) THEN closed \o str_split_from(s, i + 1, <<>>)
       ELSE str_split_from(s, i + 1, Append(field, s[i]))

str_split(s) == str_split_from(s, 1, <<>>)

RECURSIVE digits_value(_)
digits_value(s) ==
    IF s = <<>> THEN 0
    ELSE 10 * digits_value(SubSeq(s, 1, Len(s) - 1)) + (ord(s[Len(s)]) - ord("0"))

\* int(s): ValueError unless s is decimal digits
int_of(s) ==
    IF s # <<>> /\ \A i \in 1..Len(s) : s[i] \in DigitChars
    THEN [raised |-> FALSE, value |-> digits_value(s)]
    ELSE [raised |-> TRUE, value |-> 0]

\* schedule_weekly_report, line 219
day_names == <<"monday", "tuesday", "wednesday", "thursday", "friday", "saturday", "sunday">>

\* the scheduler section of ConfigManager.default_config, lines 86-91
SchedulerDefaultConfig ==
    [daily_report_cron |-> S_cron_0_18, weekly_report_cron |-> S_cron_0_12_0]

\* dict.get(key, default)
section_get(section, key, default) ==
    IF key \in DOMAIN section THEN section[key] ELSE default

\* __init__, lines 23-37
construct_scheduler(section) ==
    /\ scheduler_config = section
    /\ running = FALSE
    /\ thread = 0
    /\ threads = <<>>
    /\ caller = "idle"
    /\ jobs = <<>>

alive(i) == threads[i] # "exited"

\* start, lines 39-52
start ==
    /\ caller = "idle"
    /\ IF running
       THEN /\ ret' = [op |-> "start", started |-> FALSE]
            /\ UNCHANGED <<running, thread, threads>>
       ELSE /\ Len(threads) < MaxThreads
            /\ running' = TRUE
            /\ threads' = Append(threads, "test")
            /\ thread' = Len(threads) + 1
            /\ ret' = [op |-> "start", started |-> TRUE]
    /\ UNCHANGED <<caller, jobs, scheduler_config>>
    /\ UNCHANGED <<config, keywords, keyword_file, rg_config, data_dir, documents, fetcher_config,
                   manager_vars>>

\* stop, lines 54-65: up to the wait in join
stop_call ==
    /\ caller = "idle"
    /\ IF ~running
       THEN /\ ret' = [op |-> "stop", stopped |-> FALSE, timed_out |-> FALSE]
            /\ UNCHANGED <<running, caller>>
       ELSE /\ running' = FALSE
            /\ caller' = IF thread # 0 THEN "join" ELSE "idle"
            /\ ret' = IF thread # 0 THEN ret
                      ELSE [op |-> "stop", stopped |-> TRUE, timed_out |-> FALSE]
    /\ UNCHANGED <<thread, threads, jobs, scheduler_config>>
    /\ UNCHANGED <<config, keywords, keyword_file, rg_config, data_dir, documents, fetcher_config,
                   manager_vars>>

\* stop, lines 65-66: join returns because the thread has ended, or after
\* 5 seconds while the thread is still inside a job
stop_return ==
    /\ caller = "join"
    /\ threads[thread] \in {"exited", "run_pending"}
    /\ caller' = "idle"
    /\ ret' = [op |-> "stop", stopped |-> TRUE, timed_out |-> alive(thread)]
    /\ UNCHANGED <<running, thread, threads, jobs, scheduler_config>>
    /\ UNCHANGED <<config, keywords, keyword_file, rg_config, data_dir, documents, fetcher_config,
                   manager_vars>>

\* _run_scheduler, line 74: the while test
loop_test(i) ==
    /\ threads[i] = "test"
    /\ threads' = [threads EXCEPT ![i] = IF running THEN "run_pending" ELSE "exited"]
    /\ UNCHANGED <<running, thread, caller, jobs, scheduler_config, ret>>
    /\ UNCHANGED <<config, keywords, keyword_file, rg_config, data_dir, documents, fetcher_config,
                   manager_vars>>

\* _run_scheduler, line 75: schedule.run_pending() returns
loop_run_pending(i) ==
    /\ threads[i] = "run_pending"
    /\ threads' = [threads EXCEPT ![i] = "sleep"]
    /\ UNCHANGED <<running, thread, caller, jobs, scheduler_config, ret>>
    /\ UNCHANGED <<config, keywords, keyword_file, rg_config, data_dir, documents, fetcher_config,
                   manager_vars>>

\* _run_scheduler, line 76: time.sleep(1) returns
loop_sleep(i) ==
    /\ threads[i] = "sleep"
    /\ threads' = [threads EXCEPT ![i] = "test"]
    /\ UNCHANGED <<running, thread, caller, jobs, scheduler_config, ret>>
    /\ UNCHANGED <<config, keywords, keyword_file, rg_config, data_dir, documents, fetcher_config,
                   manager_vars>>

\* schedule_daily_report, lines 173-176
schedule_daily_report ==
    LET parts == str_split(section_get(scheduler_config, "daily_report_cron", S_cron_0_18))
    IN /\ caller = "idle"
       /\ Len(jobs) < MaxJobs
       /\ IF Len(parts) < 2
          THEN /\ ret' = [op |-> "schedule_daily_report", raised |-> TRUE]
               /\ UNCHANGED jobs
          ELSE /\ jobs' = Append(jobs, [job |-> "generate_daily_report", every |-> "day",
                                         at |-> parts[2] \o S_colon_00])
               /\ ret' = [op |-> "schedule_daily_report", raised |-> FALSE]
       /\ UNCHANGED <<running, thread, threads, caller, scheduler_config>>
       /\ UNCHANGED <<config, keywords, keyword_file, rg_config, data_dir, documents, fetcher_config,
                      manager_vars>>

\* schedule_weekly_report, lines 214-224
schedule_weekly_report ==
    LET cron_parts == str_split(section_get(scheduler_config, "weekly_report_cron",
                                            S_cron_0_12_0))
        day_of_week == int_of(cron_parts[5])
        raised == \/ Len(cron_parts) < 5
                  \/ day_of_week.raised
                  \/ day_of_week.value >= Len(day_names)
    IN /\ caller = "idle"
       /\ Len(jobs) < MaxJobs
       /\ IF raised
          THEN /\ ret' = [op |-> "schedule_weekly_report", raised |-> TRUE]
               /\ UNCHANGED jobs
          ELSE /\ jobs' = Append(jobs, [job |-> "generate_weekly_report",
                                         every |-> day_names[day_of_week.value + 1],
                                         at |-> cron_parts[2] \o S_colon_00])
               /\ ret' = [op |-> "schedule_weekly_report", raised |-> FALSE]
       /\ UNCHANGED <<running, thread, threads, caller, scheduler_config>>
       /\ UNCHANGED <<config, keywords, keyword_file, rg_config, data_dir, documents, fetcher_config,
                      manager_vars>>

\* stand-ins for the parts a specification leaves out
no_manager ==
    /\ default_config = <<>>
    /\ cm_config = <<>>
    /\ config_file = <<>>

no_fetcher == fetcher_config = <<>>

no_scheduler ==
    /\ running = FALSE
    /\ thread = 0
    /\ threads = <<>>
    /\ caller = "idle"
    /\ jobs = <<>>
    /\ scheduler_config = <<>>

NoReportConfig == [trend_analysis_days |-> 0, prediction_horizon_days |-> 0]
NoData == <<>>

no_analyzer ==
    /\ config = <<>>
    /\ keywords = <<>>
    /\ keyword_file = NoFile
    /\ rg_config = NoReportConfig
    /\ data_dir = NoData
    /\ documents = <<>>

(***************************************************************************)
(* Specifications.                                                         *)
(***************************************************************************)
\* the term set: one analyzer, its keywords loaded, added, removed and saved
TermSetConfigs == {c \in Configs : ~c.match_whole_word /\ c.max_results = MaxResults}

InitTermSet ==
    /\ no_manager
    /\ no_scheduler
    /\ no_fetcher
    /\ \E cfg \in TermSetConfigs, file \in KeywordFiles : construct(cfg, file)
    /\ rg_config = NoReportConfig
    /\ data_dir = NoData
    /\ documents = <<>>

NextTermSet ==
    \/ load_keywords
    \/ \E keyword \in RawKeywords : add_keyword(keyword)
    \/ \E keyword \in RawKeywords : remove_keyword(keyword)
    \/ save_keywords

SpecTermSet == InitTermSet /\ [][NextTermSet]_vars

\* the matcher and the aggregator: one analyzer and one list of documents
InitMatcher ==
    /\ no_manager
    /\ no_scheduler
    /\ no_fetcher
    /\ \E cfg \in Configs, file \in KeywordFiles : construct(cfg, file)
    /\ rg_config = NoReportConfig
    /\ data_dir = NoData
    /\ documents \in DocLists

NextMatcher ==
    \/ \E text \in Texts : analyze_text(text)
    \/ \E i \in 1..Len(documents) : analyze_document(documents[i])
    \/ filter_documents
    \/ get_document_keyword_stats

SpecMatcher == InitMatcher /\ [][NextMatcher]_vars

\* the matcher alone: one analyzer, a keyword added to it, texts and documents
InitText ==
    /\ no_manager
    /\ no_scheduler
    /\ no_fetcher
    /\ \E cfg \in {c \in Configs : c.max_results = MaxResults}, file \in MatchKeywordFiles :
           construct(cfg, file)
    /\ rg_config = NoReportConfig
    /\ data_dir = NoData
    /\ documents = <<>>

NextText ==
    \/ add_keyword(S_tech_sp)
    \/ \E text \in MatchTexts : analyze_text(text)
    \/ \E document \in MatchDocs : analyze_document(document)

SpecText == InitText /\ [][NextText]_vars

\* the report generator: its configuration, the data directory and the
\* keyword file it reads
Row_fintech == Doc_fintech
Row_tech == <<(<<S_title, StrVal(S_high_tech)>>)>>
Row_other == Doc_other

DataDirs ==
    {<<>>,
     <<CsvFile(0 - 1, <<Row_tech, Row_tech>>), CsvFile(1, <<Row_fintech, Row_tech>>)>>,
     <<CsvFile(0 - 3, <<Row_other>>), CsvFile(0 - 2, <<Row_fintech>>),
       CsvFile(0, <<Row_fintech>>), CsvFile(0, <<Row_tech>>)>>,
     <<CsvFile(0, <<Row_fintech>>), CsvFile(1, <<Row_tech, Row_tech, Row_tech>>)>>}

DefaultPredictionHorizonDays == 7

\* ReportGenerator.__init__, lines 42-55
ReportConfigs ==
    [trend_analysis_days : 0..MaxWindowDays,
     prediction_horizon_days : {DefaultPredictionHorizonDays}]

InitReport ==
    /\ no_manager
    /\ no_scheduler
    /\ no_fetcher
    /\ rg_config \in ReportConfigs
    /\ data_dir \in DataDirs
    /\ keyword_file \in KeywordFiles
    /\ config \in {c \in TermSetConfigs : ~c.case_sensitive /\ c.min_keyword_length = 3}
    /\ keywords = <<>>
    /\ documents = <<>>
    /\ ret = [op |-> "__init__"]

NextReport ==
    \/ \E end_date \in 0..MaxEndDate : analyze_trends(end_date)

SpecReport == InitReport /\ [][NextReport]_vars

\* the predictions of the report generator: trend mappings as _analyze_trends
\* builds them, one with a change below -100, and the day of the call
Trends_drop == <<(<<S_fintech, Frac(0 - 200, 1)>>), (<<S_tech, Frac(50, 1)>>)>>
Trends_rise == <<(<<S_tech, Frac(100, 1)>>), (<<S_aa, Frac(0 - 100, 1)>>)>>

TrendData == {<<>>, Trends_drop, Trends_rise}

PredictionHorizons == {0, DefaultPredictionHorizonDays}

PredictConfigs ==
    [trend_analysis_days : 0..MaxWindowDays,
     prediction_horizon_days : PredictionHorizons]

\* the data directories with files of two days
PredictDataDirs == {dir \in DataDirs : Len(dir) = 2}

InitPredict ==
    /\ no_manager
    /\ no_scheduler
    /\ no_fetcher
    /\ rg_config \in PredictConfigs
    /\ data_dir \in PredictDataDirs
    /\ keyword_file \in KeywordFiles
    /\ config \in {c \in TermSetConfigs : ~c.case_sensitive /\ c.min_keyword_length = 3}
    /\ keywords = <<>>
    /\ documents = <<>>
    /\ ret = [op |-> "__init__"]

NextPredict ==
    \/ \E trend_data \in TrendData, now \in 0..MaxEndDate :
           generate_predictions(trend_data, now)

SpecPredict == InitPredict /\ [][NextPredict]_vars

\* the weekly predictive report, for the week ending on a given day and for
\* the week ending today
WeeklyWindowDays == {0, 1, 2}

InitWeekly ==
    /\ no_manager
    /\ no_scheduler
    /\ no_fetcher
    /\ rg_config \in [trend_analysis_days : WeeklyWindowDays,
                       prediction_horizon_days : {DefaultPredictionHorizonDays}]
    /\ data_dir \in PredictDataDirs
    /\ keyword_file \in KeywordFiles
    /\ config \in {c \in TermSetConfigs : ~c.case_sensitive /\ c.min_keyword_length = 3}
    /\ keywords = <<>>
    /\ documents = <<>>
    /\ ret = [op |-> "__init__"]

NextWeekly ==
    \/ \E end_date \in 0..MaxEndDate, now \in 0..MaxEndDate :
           generate_weekly_predictive_report(TRUE, end_date, now)
    \/ \E now \in 0..MaxEndDate : generate_weekly_predictive_report(FALSE, now, now)

SpecWeekly == InitWeekly /\ [][NextWeekly]_vars

\* the fetcher and the report generator on one data directory
FetchYears == {0, 1}

FetchDocLists ==
    {<<>>, <<Doc_fintech>>, <<Doc_fintech, Doc_other>>, <<Doc_untyped>>,
     <<Doc_fintech, Doc_untyped, Doc_other>>}

Responses ==
    {[ok |-> FALSE, documents |-> <<>>]}
    \cup {[ok |-> TRUE, documents |-> d] : d \in FetchDocLists}

FetchDataDirs == {dir \in DataDirs : Len(dir) \in {0, 2}}

InitFetch ==
    /\ no_manager
    /\ no_scheduler
    /\ fetcher_config \in [csv_storage : BOOLEAN]
    /\ rg_config = [trend_analysis_days |-> MaxWindowDays,
                    prediction_horizon_days |-> DefaultPredictionHorizonDays]
    /\ data_dir \in FetchDataDirs
    /\ keyword_file = NoFile
    /\ config = <<>>
    /\ keywords = <<>>
    /\ documents = <<>>
    /\ ret = [op |-> "__init__"]

NextFetch ==
    \/ \E year \in FetchYears, response \in Responses :
           fetch_plenary_documents(year, response)
    \/ \E date \in 0..MaxEndDate : report_collect_daily_documents(date)

SpecFetch == InitFetch /\ [][NextFetch]_vars

\* the statistics of the analyzer and of the report generator for the same
\* documents and the same keyword file, under the default configuration
InitStats ==
    /\ no_manager
    /\ no_scheduler
    /\ no_fetcher
    /\ \E cfg \in {c \in TermSetConfigs : ~c.case_sensitive /\ c.min_keyword_length = 3},
          file \in KeywordFiles : construct(cfg, file)
    /\ rg_config = [trend_analysis_days |-> MaxWindowDays,
                    prediction_horizon_days |-> DefaultPredictionHorizonDays]
    /\ data_dir = NoData
    /\ documents \in DocLists

NextStats ==
    \/ get_document_keyword_stats
    \/ report_analyze_keyword_stats

SpecStats == InitStats /\ [][NextStats]_vars

\* the configuration manager: the file it finds, configurations saved by
\* the caller, updates and resets
Config_partial == [general |-> [debug_mode |-> Value("bool", "True")]]

Config_keyless ==
    [general |-> [log_level |-> Value("str", "DEBUG")],
     scheduler |-> [timezone |-> Value("str", "UTC")]]

Config_full ==
    [general |-> [debug_mode |-> Value("bool", "True"), log_level |-> Value("str", "DEBUG")],
     scheduler |-> [timezone |-> Value("str", "UTC")]]

TestConfigs == {Config_partial, Config_keyless, Config_full}

ConfigFiles == {AbsentFile, InvalidFile} \cup {JsonFile(c) : c \in TestConfigs}

ModuleArgs == {"", "general", "unknown"}

UpdateTargets ==
    {<<"general", "debug_mode">>, <<"scheduler", "timezone">>,
     <<"general", "unknown">>, <<"unknown", "debug_mode">>}

UpdateValues == {Value("bool", "True"), Value("tuple", "(1, 2)")}

InitConfig ==
    /\ no_analyzer
    /\ no_fetcher
    /\ no_scheduler
    /\ \E file \in ConfigFiles : construct_manager(file)

NextConfig ==
    \/ load_config
    \/ \E c \in TestConfigs : save_config(c)
    \/ \E module \in ModuleArgs : get_config(module)
    \/ \E target \in UpdateTargets, value \in UpdateValues :
           update_config(target[1], target[2], value)
    \/ \E module \in ModuleArgs : reset_to_default(module)

SpecConfig == InitConfig /\ [][NextConfig]_vars

\* The scheduler: its loop threads and the jobs it registers.
SchedulerConfigs ==
    {SchedulerDefaultConfig,
     [SchedulerDefaultConfig EXCEPT !.weekly_report_cron = S_cron_0_12_6],
     [SchedulerDefaultConfig EXCEPT !.weekly_report_cron = S_cron_30_08_7],
     [SchedulerDefaultConfig EXCEPT !.weekly_report_cron = S_cron_0_12_any],
     [SchedulerDefaultConfig EXCEPT !.weekly_report_cron = S_cron_0_12],
     [daily_report_cron |-> S_cron_0_18]}

InitScheduler ==
    /\ no_analyzer
    /\ no_fetcher
    /\ no_manager
    /\ \E section \in SchedulerConfigs : construct_scheduler(section)
    /\ ret = [op |-> "__init__"]

NextScheduler ==
    \/ start
    \/ stop_call
    \/ stop_return
    \/ \E i \in 1..Len(threads) : loop_test(i)
    \/ \E i \in 1..Len(threads) : loop_run_pending(i)
    \/ \E i \in 1..Len(threads) : loop_sleep(i)
    \/ schedule_daily_report
    \/ schedule_weekly_report

SpecScheduler == InitScheduler /\ [][NextScheduler]_vars

\* the analyzer and the report generator where data may be absent: no
\* document, no keyword file, no CSV file, a window without records
AbsentDocLists == {<<>>, <<Doc_fintech>>}

AbsentDataDirs == {dir \in DataDirs : dir = <<>> \/ (Len(dir) = 2 /\ dir[1].date = 0)}

AbsentWindowDays == {0, 2}

InitAbsent ==
    /\ no_manager
    /\ no_scheduler
    /\ no_fetcher
    /\ \E cfg \in {c \in TermSetConfigs : ~c.case_sensitive /\ c.min_keyword_length = 3},
          file \in KeywordFiles : construct(cfg, file)
    /\ rg_config \in [trend_analysis_days : AbsentWindowDays,
                      prediction_horizon_days : {DefaultPredictionHorizonDays}]
    /\ data_dir \in AbsentDataDirs
    /\ documents \in AbsentDocLists

NextAbsent ==
    \/ filter_documents
    \/ get_document_keyword_stats
    \/ \E end_date \in 0..MaxEndDate : analyze_trends(end_date)
    \/ \E trend_data \in TrendData, now \in 0..MaxEndDate :
           generate_predictions(trend_data, now)

SpecAbsent == InitAbsent /\ [][NextAbsent]_vars

(***************************************************************************)
(* Properties of the matcher and the aggregator (SpecMatcher).             *)
(***************************************************************************)
\* the place of a keyword in the iteration order of self.keywords
keyword_position(k) == CHOOSE i \in 1..Len(keywords) : keywords[i] = k

\* the count matchRecord reports for a keyword in a document, 0 when it has none
match_count(d, k) ==
    LET results == analyze_document_of(config, keywords, d).results
    IN IF dict_has(results, k) THEN dict_get(results, k) ELSE 0

RECURSIVE total_count(_, _, _)
total_count(docs, i, k) ==
    IF i > Len(docs) THEN 0 ELSE match_count(docs[i], k) + total_count(docs, i + 1, k)

\* the first document of the list in which a keyword is matched
first_match(docs, k) == CHOOSE i \in 1..Len(docs) :
    /\ match_count(docs[i], k) > 0
    /\ \A j \in 1..(i - 1) : match_count(docs[j], k) = 0

\* the documents of the list that match, by index
matching_indices(docs) ==
    {i \in 1..Len(docs) : analyze_document_of(config, keywords, docs[i]).matched}

\* the index of the n-th matching document
nth_match(docs, n) == CHOOSE i \in matching_indices(docs) :
    Cardinality({j \in matching_indices(docs) : j <= i}) = n

Min(a, b) == IF a <= b THEN a ELSE b

\* C4 as stated: the statistics are in descending order of count, and terms of
\* equal count are in the iteration order of the term set.
C4_StatsTiesInTermSetOrder ==
    ret.op = "get_document_keyword_stats" =>
        \A i, j \in 1..Len(ret.value) : i < j =>
            /\ ret.value[i][2] >= ret.value[j][2]
            /\ ret.value[i][2] = ret.value[j][2] =>
                   keyword_position(ret.value[i][1]) < keyword_position(ret.value[j][1])

\* C4 amended: the statistics are in descending order of count, and terms of
\* equal count are in the order in which they were first counted: by the first
\* record that matches them and, within one record, by the iteration order of
\* the term set.
C4_StatsTiesInFirstCountedOrder ==
    ret.op = "get_document_keyword_stats" =>
        \A i, j \in 1..Len(ret.value) : i < j =>
            /\ ret.value[i][2] >= ret.value[j][2]
            /\ ret.value[i][2] = ret.value[j][2] =>
                   LET ki == ret.value[i][1]
                       kj == ret.value[j][1]
                       fi == first_match(ret.arg, ki)
                       fj == first_match(ret.arg, kj)
                   IN \/ fi < fj
                      \/ fi = fj /\ keyword_position(ki) < keyword_position(kj)

\* two terms tie, and the one the term set iterates first was counted last
C4_Witness ==
    /\ ret.op = "get_document_keyword_stats"
    /\ \E i, j \in 1..Len(ret.value) :
        /\ i < j
        /\ ret.value[i][2] = ret.value[j][2]
        /\ first_match(ret.arg, ret.value[i][1]) < first_match(ret.arg, ret.value[j][1])
        /\ keyword_position(ret.value[i][1]) > keyword_position(ret.value[j][1])

\* C5: the statistics map each term to the sum over the records of its
\* matchRecord count, and hold exactly the terms whose sum is at least 1.
C5_StatsAreSums ==
    ret.op = "get_document_keyword_stats" =>
        /\ dict_keys(ret.value) = {k \in KeywordSet : total_count(ret.arg, 1, k) >= 1}
        /\ \A i \in 1..Len(ret.value) :
            /\ ret.value[i][2] = total_count(ret.arg, 1, ret.value[i][1])
            /\ \A j \in 1..Len(ret.value) : ret.value[j][1] = ret.value[i][1] => j = i

\* the scenario of the specification: two records, one of them matching twice
C5_Witness ==
    /\ ret.op = "get_document_keyword_stats"
    /\ ret.arg = <<Doc_fintech, Doc_other>>
    /\ KeywordSet = {S_fintech}
    /\ ret.value = <<(<<S_fintech, 2>>)>>

\* C6 as stated: filter returns at most max_results records.
C6_FilterHardCap ==
    ret.op = "filter_documents" => Len(ret.value) <= config.max_results

\* C7 as stated: filter returns exactly the first min(max_results, number of
\* matching records) matching records, in input order, and evaluates no record
\* after the one that reaches the cap.
C7_FilterFirstMatching ==
    ret.op = "filter_documents" =>
        LET n == Min(config.max_results, Cardinality(matching_indices(ret.arg)))
        IN /\ Len(ret.value) = n
           /\ \A i \in 1..Len(ret.value) :
                  i <= n => ret.value[i] = ret.arg[nth_match(ret.arg, i)]
           /\ n = config.max_results =>
                  ret.evaluated = (IF n = 0 THEN 0 ELSE nth_match(ret.arg, n))

\* C8: the keys of match(s, T) are terms of T and every value is at least 1.
C8_MatchKeysAndCounts ==
    ret.op = "analyze_text" =>
        \A i \in 1..Len(ret.value) :
            /\ ret.value[i][1] \in KeywordSet
            /\ ret.value[i][2] >= 1

\* a text in which one term occurs and another does not
C8_Witness ==
    /\ ret.op = "analyze_text"
    /\ ret.value # <<>>
    /\ \E k \in KeywordSet : ~dict_has(ret.value, k)

(***************************************************************************)
(* Properties of the term set (SpecTermSet).                               *)
(***************************************************************************)
\* C9 as stated: every term of the term set has a trimmed length of at least
\* the configured minimum.
C9_TermsHaveMinTrimmedLength ==
    \A k \in KeywordSet : Len(str_strip(k)) >= config.min_keyword_length

\* C10: a second add(t) or remove(t) leaves the set as the first left it, and
\* remove(t) of an absent term leaves the set unchanged and raises nothing.
C10_AddRemoveIdempotent ==
    [][/\ (ret'.op = "add_keyword" /\ ret'.again) => KeywordSet' = KeywordSet
       /\ (ret'.op = "remove_keyword" /\ ret'.again) => KeywordSet' = KeywordSet
       /\ (ret'.op = "remove_keyword" /\ case_fold(config, ret'.arg) \notin KeywordSet) =>
              KeywordSet' = KeywordSet /\ ~ret'.raised]_vars

\* remove(t) was applied twice in a row, the second time to an absent term,
\* while the set holds other terms
C10_Witness ==
    /\ ret.op = "remove_keyword"
    /\ ret.again
    /\ ~ret.found
    /\ KeywordSet # {}

(***************************************************************************)
(* Properties of the trend analysis (SpecReport).                          *)
(***************************************************************************)
\* C1: for every term of the trend output, f and s its counts in the first and
\* the second half: the trend is ((s - f) / f) * 100 when f > 0, and 100 when
\* f = 0 and s > 0.
C1_TrendFormula ==
    ret.op = "_analyze_trends" =>
        \A i \in 1..Len(ret.value) :
            LET f == dict_get_or(ret.first_half_stats, ret.value[i][1], 0)
                s == dict_get_or(ret.second_half_stats, ret.value[i][1], 0)
                trend == ret.value[i][2]
            IN /\ trend.den > 0
               /\ f > 0 => trend.num * f = (s - f) * 100 * trend.den
               /\ (f = 0 /\ s > 0) => trend.num = 100 * trend.den

\* one term went from 2 to 3 occurrences (a trend of 50), another from 0 to 2
C1_Witness ==
    /\ ret.op = "_analyze_trends"
    /\ \E i, j \in 1..Len(ret.value) :
        /\ dict_get_or(ret.first_half_stats, ret.value[i][1], 0) = 2
        /\ dict_get_or(ret.second_half_stats, ret.value[i][1], 0) = 3
        /\ ret.value[i][2] = [num |-> 50, den |-> 1]
        /\ dict_get_or(ret.first_half_stats, ret.value[j][1], 0) = 0
        /\ dict_get_or(ret.second_half_stats, ret.value[j][1], 0) = 2
        /\ ret.value[j][2] = [num |-> 100, den |-> 1]

\* C2 as stated: when the window is odd, the second half collected is one day
\* longer than the first.
C2_OddWindowSecondHalfLonger ==
    (ret.op = "_analyze_trends" /\ rg_config.trend_analysis_days % 2 = 1) =>
        Len(ret.second_days) = Len(ret.first_days) + 1

\* C2 amended: when the window is odd, the two halves collected have the same
\* number of days, (windowDays + 1) / 2 each; when it is even and positive,
\* the first half is one day longer than the second.
C2_OddWindowHalvesEqual ==
    LET days == rg_config.trend_analysis_days IN
    ret.op = "_analyze_trends" =>
        /\ days % 2 = 1 =>
               /\ Len(ret.first_days) = (days + 1) \div 2
               /\ Len(ret.second_days) = (days + 1) \div 2
        /\ (days % 2 = 0 /\ days >= 1) =>
               Len(ret.first_days) = Len(ret.second_days) + 1

\* a window of 3 days: 2 days in each half
C2_Witness ==
    /\ ret.op = "_analyze_trends"
    /\ rg_config.trend_analysis_days = 3
    /\ Len(ret.first_days) = 2
    /\ Len(ret.second_days) = 2

\* C3: for a window of at least one day, every day of [startDate, endDate] is
\* collected in exactly one of the two halves, once, and no other day is.
C3_HalvesPartitionWindow ==
    LET days == rg_config.trend_analysis_days IN
    (ret.op = "_analyze_trends" /\ days >= 1) =>
        /\ Range(ret.first_days) \cup Range(ret.second_days) = (ret.arg - days)..ret.arg
        /\ Range(ret.first_days) \cap Range(ret.second_days) = {}
        /\ Cardinality(Range(ret.first_days)) = Len(ret.first_days)
        /\ Cardinality(Range(ret.second_days)) = Len(ret.second_days)

\* a window of one day: the first half is startDate, the second endDate
C3_Witness ==
    /\ ret.op = "_analyze_trends"
    /\ rg_config.trend_analysis_days = 1
    /\ ret.first_days = <<ret.arg - 1>>
    /\ ret.second_days = <<ret.arg>>


(***************************************************************************)
(* The matcher on a text.                                                  *)
(***************************************************************************)
\* the text as analyze_text scans it under the configuration of the state
scanned(text) == IF config.case_sensitive THEN text ELSE str_lower(text)

AlnumChars == UpperChars \cup LowerChars \cup DigitChars

\* the places where the literal keyword occurs in the text
occurrences(keyword, text) == {p \in 1..Len(text) : literal_at(keyword, text, p)}

\* the occurrences with no alphanumeric character right before or right after
standalone_occurrences(keyword, text) ==
    {p \in occurrences(keyword, text) :
        /\ ~(p > 1 /\ text[p - 1] \in AlnumChars)
        /\ ~(p + Len(keyword) <= Len(text) /\ text[p + Len(keyword)] \in AlnumChars)}

\* the count analyze_text returned for a keyword, 0 when it has no entry
returned_count(k) == IF dict_has(ret.value, k) THEN dict_get(ret.value, k) ELSE 0

\* C11: in whole-word mode the count of a term is the number of its
\* occurrences that have no alphanumeric character immediately before and
\* none immediately after
C11_WholeWordNoAlnumAdjacent ==
    (ret.op = "analyze_text" /\ config.match_whole_word)
    => \A k \in KeywordSet :
          returned_count(k) = Cardinality(standalone_occurrences(k, scanned(ret.arg)))

\* the occurrences a left-to-right scan keeps: no two of them overlap, and
\* every occurrence starts inside one that is kept and begins no later
scan_keeps(P, keyword, text) ==
    /\ \A p \in P, q \in P : p < q => p + Len(keyword) <= q
    /\ \A q \in occurrences(keyword, text) :
          \E p \in P : p <= q /\ q < p + Len(keyword)

\* C12: in substring mode the count of a term is the number of its
\* non-overlapping occurrences found by a left-to-right scan of the text;
\* 'aa' counts 2 in 'aaaa' and 1 in 'aaa'
C12_SubstringCountsNonOverlapping ==
    (ret.op = "analyze_text" /\ ~config.match_whole_word)
    => /\ \A k \in KeywordSet :
             \E P \in SUBSET occurrences(k, scanned(ret.arg)) :
                 /\ scan_keeps(P, k, scanned(ret.arg))
                 /\ returned_count(k) = Cardinality(P)
       /\ (S_aa \in KeywordSet /\ ret.arg = S_aaaa) => returned_count(S_aa) = 2
       /\ (S_aa \in KeywordSet /\ ret.arg = S_aaa) => returned_count(S_aa) = 1

C12_Witness ==
    /\ ret.op = "analyze_text" /\ ~config.match_whole_word
    /\ S_aa \in KeywordSet /\ ret.arg = S_aaaa
    /\ Cardinality(occurrences(S_aa, ret.arg)) = 3
    /\ returned_count(S_aa) = 2

\* C13: with case_sensitive false the result for a text is the result for
\* the lowercased text; 'FinTech' gives what 'fintech' gives
C13_CaseInsensitiveText ==
    (ret.op = "analyze_text" /\ ~config.case_sensitive)
    => /\ ret.value = analyze_text_of(config, keywords, str_lower(ret.arg))
       /\ ret.arg = S_FinTech => ret.value = analyze_text_of(config, keywords, S_fintech)

C13_Witness ==
    /\ ret.op = "analyze_text" /\ ~config.case_sensitive
    /\ ret.arg = S_FinTech /\ str_lower(ret.arg) # ret.arg
    /\ S_fintech \in KeywordSet
    /\ returned_count(S_fintech) = 1

(***************************************************************************)
(* The matcher on a document.                                              *)
(***************************************************************************)
\* the listed fields the document holds a str for, in the order of the list
string_fields(d) ==
    SelectSeq(TextFields, LAMBDA f : dict_has(d, f) /\ dict_get(d, f).t = "str")

\* the values of the fields with a space between two of them and, when
\* closed, a space after the last one as well
RECURSIVE joined(_, _, _)
joined(d, fields, closed) ==
    IF fields = <<>> THEN <<>>
    ELSE dict_get(d, Head(fields)).v
         \o (IF Len(fields) > 1 \/ closed THEN <<" ">> ELSE <<>>)
         \o joined(d, Tail(fields), closed)

\* the text of a record: the joined fields, or the serialization of the
\* record when it holds a str for none of them
record_text(d, closed) ==
    IF string_fields(d) = <<>> THEN py_str(d) ELSE joined(d, string_fields(d), closed)

\* C14 as stated: analyze_document matches against the string-valued listed
\* fields in the order of the list separated by a space, against the
\* serialization only when there is none, and matched is true exactly when
\* the result is non-empty
C14_RecordTextSpaceSeparated ==
    ret.op = "analyze_document"
    => /\ ret.value.results = analyze_text_of(config, keywords, record_text(ret.arg, FALSE))
       /\ ret.value.matched = (ret.value.results # <<>>)

\* C14 amended: analyze_document matches against the string-valued listed
\* fields in the order of the list, each of them followed by a space (so
\* the text ends with a space), against the serialization only when there
\* is none, and matched is true exactly when the result is non-empty
C14_RecordTextSpaceTerminated ==
    ret.op = "analyze_document"
    => /\ ret.value.results = analyze_text_of(config, keywords, record_text(ret.arg, TRUE))
       /\ ret.value.matched = (ret.value.results # <<>>)

C14_Witness ==
    /\ ret.op = "analyze_document" /\ ret.arg = Doc_summary
    /\ S_tech_sp \in KeywordSet
    /\ record_text(ret.arg, TRUE) = S_high_tech \o <<" ">>
    /\ ret.value.matched
    /\ \E i \in 1..Len(ret.value.results) : ret.value.results[i] = <<S_tech_sp, 1>>

(***************************************************************************)
(* The trends.                                                             *)
(***************************************************************************)
\* the keys of a mapping are pairwise different
distinct_keys(d) == \A i \in 1..Len(d), j \in 1..Len(d) : d[i][1] = d[j][1] => i = j

\* C15: the trend mapping has one entry for every term counted in the first
\* or in the second half-window, also when the other half-window has no
\* record at all, and no entry for any other term
C15_TrendKeysAreUnionOfHalves ==
    ret.op = "_analyze_trends"
    => /\ dict_keys(ret.value)
              = {k \in Range(report_keywords_from(keyword_file.lines, 1)) :
                    \/ dict_get_or(ret.first_half_stats, k, 0) > 0
                    \/ dict_get_or(ret.second_half_stats, k, 0) > 0}
       /\ dict_keys(ret.value)
              = dict_keys(ret.first_half_stats) \cup dict_keys(ret.second_half_stats)
       /\ distinct_keys(ret.value)

\* a term counted in the second half only, the first half having no record
C15_Witness ==
    /\ ret.op = "_analyze_trends"
    /\ documents_of_days(data_dir, ret.first_days) = <<>>
    /\ ret.first_half_stats = <<>>
    /\ \E k \in dict_keys(ret.second_half_stats) : k \in dict_keys(ret.value)
    /\ dict_keys(ret.first_half_stats) \cap dict_keys(ret.second_half_stats)
           # dict_keys(ret.value)

\* C16: the entries of the trend mapping come in descending order of the
\* absolute value of the percentage change
C16_TrendsByDescendingAbs ==
    ret.op = "_analyze_trends"
    => \A i \in 1..Len(ret.value) - 1 :
          ~frac_abs_less(ret.value[i][2], ret.value[i + 1][2])

\* a negative change ahead of a positive one of smaller absolute value
C16_Witness ==
    /\ ret.op = "_analyze_trends"
    /\ Len(ret.value) >= 2
    /\ ret.value[1][2].num < 0 /\ ret.value[2][2].num > 0
    /\ frac_abs_less(ret.value[2][2], ret.value[1][2])

(***************************************************************************)
(* The predictions.                                                        *)
(***************************************************************************)
\* C17: a call of _generate_predictions ends without an error and predicts
\* for exactly the terms that are in the trend mapping and in the
\* historical statistics; a term with a trend and no historical total is
\* left out
C17_PredictionIffTrendAndHistorical ==
    ret.op = "_generate_predictions"
    => /\ ~ret.raised
       /\ dict_keys(ret.value) = dict_keys(ret.arg) \cap dict_keys(ret.historical_stats)

\* C18: every projected count is max(0, (historical total / window days)
\* * (1 + trend / 100) * horizon days); none is negative, and a trend of
\* -100 or less gives exactly 0
C18_ProjectedCountFormula ==
    ret.op = "_generate_predictions"
    => \A i \in 1..Len(ret.value) :
          LET projected == ret.value[i][2]
              trend == dict_get(ret.arg, ret.value[i][1])
              total == dict_get(ret.historical_stats, ret.value[i][1])
              n == total * (100 * trend.den + trend.num) * rg_config.prediction_horizon_days
              m == rg_config.trend_analysis_days * 100 * trend.den
          IN /\ m > 0 /\ projected.den > 0
             /\ projected.num >= 0
             /\ n > 0 => projected.num * m = n * projected.den
             /\ n <= 0 => projected.num = 0
             /\ trend.num <= (0 - 100) * trend.den => projected.num = 0

\* a term with a trend of -200 and a historical total: its projected count is 0
C18_Witness ==
    /\ ret.op = "_generate_predictions" /\ ret.arg = Trends_drop
    /\ rg_config.prediction_horizon_days > 0
    /\ dict_has(ret.historical_stats, S_fintech)
    /\ \E i \in 1..Len(ret.value) :
          /\ ret.value[i] = <<S_fintech, Frac(0, 1)>>
          /\ predicted_total_of(dict_get(ret.historical_stats, S_fintech),
                                rg_config.trend_analysis_days,
                                dict_get(ret.arg, S_fintech),
                                rg_config.prediction_horizon_days).num < 0
    /\ \E i \in 1..Len(ret.value) : ret.value[i][2].num > 0

\* C19: the predictions come in descending order of the projected value
C19_PredictionsByDescendingValue ==
    ret.op = "_generate_predictions"
    => \A i \in 1..Len(ret.value) - 1 : ~frac_less(ret.value[i][2], ret.value[i + 1][2])

\* two predictions that come in the other order than their trends do
C19_Witness ==
    /\ ret.op = "_generate_predictions"
    /\ Len(ret.arg) = 2 /\ Len(ret.value) = 2
    /\ ret.value[1][1] = ret.arg[2][1] /\ ret.value[2][1] = ret.arg[1][1]
    /\ frac_less(ret.value[2][2], ret.value[1][2])

\* C20: no prediction is computed under a configuration whose window days
\* or horizon days are not positive, such a configuration being rejected at
\* construction, and _generate_predictions never divides by a window of 0 days
C20_InvalidConfigRejected ==
    ret.op = "_generate_predictions"
    => /\ rg_config.trend_analysis_days >= 1
       /\ rg_config.prediction_horizon_days >= 1
       /\ ~ret.raised


(***************************************************************************)
(* Absent data.                                                            *)
(***************************************************************************)
\* the keywords the report generator reads from the keyword file
report_keywords == Range(report_keywords_from(keyword_file.lines, 1))

\* C21: without documents or without keywords filter_documents returns an
\* empty list and get_document_keyword_stats an empty mapping; the trend
\* mapping is empty when both half-windows have no record or there is no
\* keyword; _generate_predictions ends without an error and with an empty
\* mapping for an empty trend mapping, a window without records, no keyword
\* or trends whose terms have no historical total, and it never predicts
\* for a term without historical total
C21_AbsentDataNeverRaises ==
    /\ (ret.op = "filter_documents" /\ (ret.arg = <<>> \/ keywords = <<>>))
       => ret.value = <<>>
    /\ (ret.op = "get_document_keyword_stats" /\ (ret.arg = <<>> \/ keywords = <<>>))
       => ret.value = <<>>
    /\ (ret.op = "_analyze_trends"
        /\ \/ report_keywords = {}
           \/ /\ documents_of_days(data_dir, ret.first_days) = <<>>
              /\ documents_of_days(data_dir, ret.second_days) = <<>>)
       => ret.value = <<>>
    /\ ret.op = "_generate_predictions"
       => /\ dict_keys(ret.value) \subseteq dict_keys(ret.historical_stats)
          /\ (\/ ret.arg = <<>>
              \/ report_keywords = {}
              \/ documents_of_days(data_dir,
                     collected_days(ret.now - rg_config.trend_analysis_days, ret.now)) = <<>>
              \/ dict_keys(ret.arg) \cap dict_keys(ret.historical_stats) = {})
             => (~ret.raised /\ ret.value = <<>>)

\* trends for terms that have no historical total, under a window of 0 days
C21_Witness ==
    /\ ret.op = "_generate_predictions"
    /\ ret.arg # <<>> /\ rg_config.trend_analysis_days = 0
    /\ ret.historical_stats # <<>>
    /\ dict_keys(ret.arg) \cap dict_keys(ret.historical_stats) = {}
    /\ ~ret.raised /\ ret.value = <<>>


(***************************************************************************)
(* The statistics of the report generator.                                 *)
(***************************************************************************)
\* C22: for the documents and the keyword file of the state, under the
\* default configuration, _analyze_keyword_stats returns the mapping from
\* term to count that get_document_keyword_stats returns
C22_ReportStatsAreAggregatorStats ==
    ret.op = "_analyze_keyword_stats"
    => Range(ret.value) = Range(get_document_keyword_stats_of(config, keywords, ret.arg))


(***************************************************************************)
(* The configuration manager.                                              *)
(***************************************************************************)
\* the configuration self.config holds in the state
current_config == config_dict(cm_config, default_config)

\* C23: a load_config that follows save_config(c) returns every module and
\* key of c with the value saved and every other module and key of the
\* defaults with the default value, and a get_config(module) that follows
\* returns the section of that module in the configuration loaded
C23_ConfigRoundTrip ==
    /\ (ret.op = "load_config" /\ ret.saved # <<>>)
       => LET c == ret.saved[1] IN
          /\ \A m \in DOMAIN c : \A k \in DOMAIN c[m] :
                m \in DOMAIN ret.value /\ k \in DOMAIN ret.value[m]
                /\ ret.value[m][k] = c[m][k]
          /\ \A m \in DOMAIN default_config : \A k \in DOMAIN default_config[m] :
                m \in DOMAIN ret.value /\ k \in DOMAIN ret.value[m]
                /\ (m \notin DOMAIN c \/ k \notin DOMAIN c[m])
                   => ret.value[m][k] = default_config[m][k]
    /\ (ret.op = "get_config" /\ ret.loaded # <<>> /\ ret.loaded[1].saved # <<>>
        /\ ret.arg \in DOMAIN ret.loaded[1].value)
       => ret.value = ret.loaded[1].value[ret.arg]

\* C24: default_config always has the values it had at construction, and
\* after reset_to_default(module) the module has those values
C24_ResetRestoresBuiltInDefaults ==
    /\ default_config = DefaultConfig
    /\ (ret.op = "reset_to_default" /\ ret.result /\ ret.arg # "")
       => current_config[ret.arg] = DefaultConfig[ret.arg]
    /\ (ret.op = "reset_to_default" /\ ret.result /\ ret.arg = "")
       => current_config = DefaultConfig

\* C25: when the manager is constructed and when load_config returns, the
\* configuration file holds the configuration returned
C25_FileHoldsLoadedConfig ==
    ret.op \in {"__init__", "load_config"}
    => /\ config_file.kind = "json"
       /\ config_file.content = json_of_config(ret.value)

cron_weekday(d) ==
    <<"sunday", "monday", "tuesday", "wednesday", "thursday", "friday", "saturday",
      "sunday">>[d + 1]

\* the job the last schedule_ call registered
last_job == jobs[Len(jobs)]

\* C27: with the default scheduler section schedule_weekly_report registers
\* the weekly job on Sunday at 12:00, and a day-of-week field 0..7 registers
\* it on the weekday the field names in cron
C27_WeeklyJobOnDocumentedWeekday ==
    ret.op = "schedule_weekly_report"
    => LET cron_parts == str_split(section_get(scheduler_config, "weekly_report_cron",
                                               S_cron_0_12_0))
       IN /\ scheduler_config = SchedulerDefaultConfig
             => /\ ~ret.raised
                /\ last_job = [job |-> "generate_weekly_report", every |-> "sunday",
                               at |-> <<"1", "2", ":", "0", "0">>]
          /\ (Len(cron_parts) = 5 /\ ~int_of(cron_parts[5]).raised
              /\ int_of(cron_parts[5]).value <= 7)
             => /\ ~ret.raised
                /\ last_job.job = "generate_weekly_report"
                /\ last_job.every = cron_weekday(int_of(cron_parts[5]).value)

\* C28: no two threads are inside schedule.run_pending() at once
C28_OneLoopRunsPendingJobs ==
    Cardinality({i \in 1..Len(threads) : threads[i] = "run_pending"}) <= 1


(***************************************************************************)
(* The weekly predictive report.                                           *)
(***************************************************************************)
\* C29: the baseline of the predictions of generate_weekly_predictive_report
\* is counted over the trend_analysis_days ending at end_date
C29_BaselineWindowEndsAtEndDate ==
    (ret.op = "generate_weekly_predictive_report" /\ ret.trend_data # <<>>)
    => ret.historical_days
           = collected_days(ret.end_date - rg_config.trend_analysis_days, ret.end_date)


(***************************************************************************)
(* The fetcher and the report generator.                                   *)
(***************************************************************************)
\* C30: after a fetch that succeeded with csv_storage on and stored a list
\* that is not empty, _collect_daily_documents returns the documents fetched,
\* for the day of the fetch as for any day
C30_CollectedAreFetched ==
    (/\ ret.op = "_collect_daily_documents"
     /\ ret.fetched # <<>>
     /\ fetcher_config.csv_storage
     /\ ret.fetched[1].ok
     /\ ret.fetched[1].value # <<>>)
    => ret.value = ret.fetched[1].value

====
